---- MODULE Spec2Model ----
(***************************************************************************)
(* A model of sfmatch: CompileWithDelimiter derives one regular expression *)
(* from the tagged fields of a struct, Unmarshal runs it once over the     *)
(* input and converts every submatch into the field it belongs to.         *)
(*                                                                         *)
(* Texts are sequences of one-character strings.  An input is a sequence   *)
(* of words (the text between blanks); a regular expression is a sequence  *)
(* of tokens, each a whole syntactic unit of the regexp dialect:           *)
(*    "(?mU)"  the flag group the code puts first                          *)
(*    "("  ")" a capturing group                                           *)
(*    "["      a character class that is never closed (a syntax error)     *)
(*    "S"      \S+  : one word                                             *)
(*    "1"      the literal word 1                                          *)
(*    "*"      [\s\S]* : any run of words, as few as possible under (?U)   *)
(*    "?"      an optional blank : nothing at the word level               *)
(*    "-"      a literal dash (a tag that is only a dash skips its field)  *)
(***************************************************************************)
EXTENDS Integers, Sequences, FiniteSets, TLC

VARIABLES
    structure,  \* the struct type handed to the compile call (a sequence of fields)
    delim,      \* the delimiter the compile call used
    compiled,   \* "new" | "ok" | "err" | "panic": how the compile call ended
    m,          \* the *Match the compile call returned, or NilMatch
    cerr,       \* the error the compile call returned
    pc,         \* per call: "idle" | "found" | "elem" | "loop" | "done" | "panic"
    data,       \* per call: the input words
    how,        \* per call: what the caller passed as value
    value,      \* per call: the caller's struct instance (field index -> Value)
    before,     \* per call: the instance as it was when the call began
    s,          \* per call: the result of FindStringSubmatch
    idx,        \* per call: position of the range loop over m.indices
    err,        \* per call: the error returned
    finds       \* per call: how often the expression was executed

vars == <<structure, delim, compiled, m, cerr,
          pc, data, how, value, before, s, idx, err, finds>>

compileVars == <<structure, delim, compiled, m, cerr>>
callVars == <<pc, data, how, value, before, s, idx, err, finds>>

---------------------------------------------------------------------------
(* Bounds *)

MaxFields == 2      \* fields of a struct
MaxWords == 2       \* words of an input
NumCalls == 2       \* Unmarshal calls (each with its own destination)

Calls == 1..NumCalls

---------------------------------------------------------------------------
(* Sequences indexed from 0, as Go slices are *)

At0(q, i) == q[i + 1]

RECURSIVE Concat(_)
Concat(qs) == IF qs = <<>> THEN <<>> ELSE Head(qs) \o Concat(Tail(qs))

---------------------------------------------------------------------------
(* strconv *)

NoError == "nil"
ErrSyntax == "invalid syntax"
ErrUnsupportedKind == "Unsupported kind"

DigitChars == {"0", "1", "2", "3", "4", "5", "6", "7", "8", "9"}

DigitVal(c) ==
    CASE c = "0" -> 0 [] c = "1" -> 1 [] c = "2" -> 2 [] c = "3" -> 3
      [] c = "4" -> 4 [] c = "5" -> 5 [] c = "6" -> 6 [] c = "7" -> 7
      [] c = "8" -> 8 [] c = "9" -> 9

RECURSIVE DigitsValue(_)
DigitsValue(t) ==
    IF t = <<>> THEN 0
    ELSE 10 * DigitsValue(SubSeq(t, 1, Len(t) - 1)) + DigitVal(t[Len(t)])

AllDigits(t) == t # <<>> /\ \A k \in 1..Len(t) : t[k] \in DigitChars

\* strconv.ParseUint(input, 10, 64): digits only, no sign.  The texts of the
\* model have at most three digits, so the 64-bit range error cannot arise.
ParseUint(input) ==
    IF AllDigits(input) THEN [err |-> NoError, n |-> DigitsValue(input)]
    ELSE [err |-> ErrSyntax, n |-> 0]

\* strconv.ParseInt(input, 10, 64): an optional sign, then digits.
ParseInt(input) ==
    IF input = <<>> THEN [err |-> ErrSyntax, n |-> 0]
    ELSE LET neg == input[1] = "-"
             rest == IF input[1] \in {"+", "-"} THEN Tail(input) ELSE input
             u == ParseUint(rest)
         IN  IF u.err # NoError THEN [err |-> ErrSyntax, n |-> 0]
             ELSE [err |-> NoError, n |-> IF neg THEN 0 - u.n ELSE u.n]

\* strconv.ParseFloat(input, 64) on the texts of the model, which hold no
\* fraction and no exponent: an optional sign, then digits.
ParseFloat(input) == ParseInt(input)

TrueTexts == { <<"1">>, <<"t">>, <<"T">>, <<"T", "R", "U", "E">>,
               <<"t", "r", "u", "e">>, <<"T", "r", "u", "e">> }
FalseTexts == { <<"0">>, <<"f">>, <<"F">>, <<"F", "A", "L", "S", "E">>,
                <<"f", "a", "l", "s", "e">>, <<"F", "a", "l", "s", "e">> }

\* strconv.ParseBool(input)
ParseBool(input) ==
    IF input \in TrueTexts THEN [err |-> NoError, b |-> TRUE]
    ELSE IF input \in FalseTexts THEN [err |-> NoError, b |-> FALSE]
    ELSE [err |-> ErrSyntax, b |-> FALSE]

---------------------------------------------------------------------------
(* reflect: kinds, values and their setters *)

BoolKinds == {"Bool"}
IntKinds == {"Int", "Int8", "Int16", "Int32", "Int64"}
UintKinds == {"Uint", "Uint8", "Uint16", "Uint32", "Uint64"}
FloatKinds == {"Float32", "Float64"}
StringKinds == {"String"}
SupportedKinds == BoolKinds \cup IntKinds \cup UintKinds \cup FloatKinds \cup StringKinds

\* The width of an integer kind, in bits.
Bits(kind) ==
    CASE kind \in {"Int8", "Uint8"} -> 8
      [] kind \in {"Int16", "Uint16"} -> 16
      [] kind \in {"Int32", "Uint32"} -> 32
      [] OTHER -> 64

\* A value of any kind: the part its kind uses is the one that is set.
ZeroValue == [b |-> FALSE, n |-> 0, t |-> <<>>]

\* reflect.Value.SetInt(x): the field receives x converted to its own width,
\* which keeps the low bits.  The numbers of the model are below 2^31, so a
\* field of 32 or 64 bits holds them all.
SetInt(v, kind, x) ==
    IF Bits(kind) >= 32 THEN [v EXCEPT !.n = x]
    ELSE LET w == 2 ^ Bits(kind)
             low == x % w
         IN  [v EXCEPT !.n = IF low >= w \div 2 THEN low - w ELSE low]

\* reflect.Value.SetUint(x)
SetUint(v, kind, x) ==
    IF Bits(kind) >= 32 THEN [v EXCEPT !.n = x]
    ELSE [v EXCEPT !.n = x % (2 ^ Bits(kind))]

SetBool(v, x) == [v EXCEPT !.b = x]
SetFloat(v, x) == [v EXCEPT !.n = x]
SetString(v, x) == [v EXCEPT !.t = x]

---------------------------------------------------------------------------
(* typeParser: primitives only *)

\* The result is the error returned and the value v holds afterwards.
typeParser(kind, input, canSet, v) ==
    CASE kind \in BoolKinds ->
            IF ~canSet THEN [err |-> NoError, v |-> v]
            ELSE LET r == ParseBool(input)
                 IN  IF r.err # NoError THEN [err |-> r.err, v |-> v]
                     ELSE [err |-> NoError, v |-> SetBool(v, r.b)]
      [] kind \in IntKinds ->
            IF ~canSet THEN [err |-> NoError, v |-> v]
            ELSE LET r == ParseInt(input)
                 IN  IF r.err # NoError THEN [err |-> r.err, v |-> v]
                     ELSE [err |-> NoError, v |-> SetInt(v, kind, r.n)]
      [] kind \in UintKinds ->
            IF ~canSet THEN [err |-> NoError, v |-> v]
            ELSE LET r == ParseUint(input)
                 IN  IF r.err # NoError THEN [err |-> r.err, v |-> v]
                     ELSE [err |-> NoError, v |-> SetUint(v, kind, r.n)]
      [] kind \in FloatKinds ->
            IF ~canSet THEN [err |-> NoError, v |-> v]
            ELSE LET r == ParseFloat(input)
                 IN  IF r.err # NoError THEN [err |-> r.err, v |-> v]
                     ELSE [err |-> NoError, v |-> SetFloat(v, r.n)]
      [] kind \in StringKinds ->
            IF ~canSet THEN [err |-> NoError, v |-> v]
            ELSE [err |-> NoError, v |-> SetString(v, input)]
      [] OTHER -> [err |-> ErrUnsupportedKind, v |-> v]

---------------------------------------------------------------------------
(* regexp *)

FlagGroup == "(?mU)"

RECURSIVE depthOK(_, _)
depthOK(re, depth) ==
    IF re = <<>> THEN depth = 0
    ELSE CASE Head(re) = "(" -> depthOK(Tail(re), depth + 1)
           [] Head(re) = ")" -> depth > 0 /\ depthOK(Tail(re), depth - 1)
           [] Head(re) = "[" -> FALSE
           [] OTHER -> depthOK(Tail(re), depth)

\* regexp.Compile(expr) returns no error: every group is closed, no closing
\* parenthesis lacks its opening one, no character class is left open.
SyntaxOK(re) == depthOK(re, 0)

\* (*Regexp).NumSubexp()
NumSubexp(re) == Cardinality({k \in 1..Len(re) : re[k] = "("})

RECURSIVE JoinWords(_)
JoinWords(ws) ==
    IF ws = <<>> THEN <<>>
    ELSE IF Len(ws) = 1 THEN ws[1]
    ELSE ws[1] \o <<" ">> \o JoinWords(Tail(ws))

NoRun == [ok |-> FALSE, end |-> 0, caps |-> <<>>]

\* The backtracking run of a valid expression re from token p over the words
\* d from word j: the first way to match in the order of preference, in
\* which "*" takes as few words as it can.  caps[g] is the span of group g.
RECURSIVE run(_, _, _, _, _, _)
RECURSIVE star(_, _, _, _, _, _, _)
run(re, p, d, j, open, caps) ==
    IF p > Len(re) THEN [ok |-> TRUE, end |-> j, caps |-> caps]
    ELSE CASE re[p] \in {FlagGroup, "?"} -> run(re, p + 1, d, j, open, caps)
           [] re[p] = "(" ->
                run(re, p + 1, d, j, <<Len(caps) + 1>> \o open, Append(caps, <<j, j>>))
           [] re[p] = ")" ->
                run(re, p + 1, d, j, Tail(open), [caps EXCEPT ![Head(open)][2] = j])
           [] re[p] = "S" ->
                IF j <= Len(d) THEN run(re, p + 1, d, j + 1, open, caps) ELSE NoRun
           [] re[p] = "*" -> star(re, p, d, j, open, caps, 0)
           [] OTHER ->
                IF j <= Len(d) /\ d[j] = <<re[p]>>
                THEN run(re, p + 1, d, j + 1, open, caps) ELSE NoRun
star(re, p, d, j, open, caps, k) ==
    IF j + k > Len(d) + 1 THEN NoRun
    ELSE LET r == run(re, p + 1, d, j + k, open, caps)
         IN  IF r.ok THEN r ELSE star(re, p, d, j, open, caps, k + 1)

NilSubmatch == <<>>

RECURSIVE findFrom(_, _, _)
findFrom(re, d, j) ==
    IF j > Len(d) + 1 THEN NilSubmatch
    ELSE LET r == run(re, 1, d, j, <<>>, <<>>)
         IN  IF r.ok
             THEN <<JoinWords(SubSeq(d, j, r.end - 1))>> \o
                  [g \in 1..Len(r.caps) |->
                      JoinWords(SubSeq(d, r.caps[g][1], r.caps[g][2] - 1))]
             ELSE findFrom(re, d, j + 1)

\* (*Regexp).FindStringSubmatch(data): nil, or the leftmost match followed
\* by the text of each of its groups.
FindStringSubmatch(re, d) == findFrom(re, d, 1)

---------------------------------------------------------------------------
(* Struct types and their tags *)

\* A tag `sfmatch:"..."`, and a tag that is the fragment itself (or absent).
KeyTag(frag) == [key |-> "sfmatch", val |-> frag]
RawTag(frag) == [key |-> "", val |-> frag]

\* reflect.StructTag.Lookup(key)
Lookup(tag, key) ==
    IF tag.key = key THEN [value |-> tag.val, ok |-> TRUE]
    ELSE [value |-> <<>>, ok |-> FALSE]

\* string(ft.Tag), needed only where Lookup finds no key.
TagString(tag) == tag.val

FieldNames == <<"A", "B", "C", "D">>

---------------------------------------------------------------------------
(* Match, Compile, MustCompile, CompileWithDelimiter *)

NilMatch == [regex |-> <<>>, indices |-> <<>>, kinds |-> <<>>, vtype |-> <<>>]

NoCompileError == [msg |-> "nil", name |-> ""]
ErrUseField(name) == [msg |-> "Failed to use field", name |-> name]
ErrCompileRegex == [msg |-> "Failed to compile the regex", name |-> ""]
ErrMismatch == [msg |-> "Mismatch field count and submatch count", name |-> ""]

DefaultDelimiter == <<"*">>

\* The tag of a field as the loop reads it.
fieldTag(ft) ==
    LET lk == Lookup(ft.Tag, "sfmatch")
    IN  IF ~lk.ok THEN TagString(ft.Tag) ELSE lk.value

\* Should we skip this field?
skipField(ft) ==
    \/ ft.PkgPath # ""
    \/ fieldTag(ft) = <<"-">>
    \/ fieldTag(ft) = <<>>

\* Mutant of kindUnsupported: the probe compares with the wrong error.
kindProbeWrongError(fk) == typeParser(fk, <<>>, FALSE, ZeroValue).err = ErrSyntax

\* The probe of the kind: typeParser on no value at all.
kindUnsupported(fk) == typeParser(fk, <<>>, FALSE, ZeroValue).err = ErrUnsupportedKind

\* The loop over the fields of t from field i on; acc holds the error, the
\* regex written so far, and the fields and kinds recognized so far.
RECURSIVE fieldLoop(_, _, _, _)
fieldLoop(t, dl, i, acc) ==
    IF i >= Len(t) THEN acc
    ELSE LET ft == At0(t, i)
             fk == ft.Type
         IN  IF skipField(ft) THEN fieldLoop(t, dl, i + 1, acc)
             ELSE IF kindUnsupported(fk)
             THEN [acc EXCEPT !.err = ErrUseField(ft.Name)]
             ELSE fieldLoop(t, dl, i + 1,
                            [err |-> acc.err,
                             regex |-> acc.regex \o dl \o fieldTag(ft),
                             fields |-> Append(acc.fields, i),
                             kinds |-> Append(acc.kinds, fk)])

\* Mutants of groupsMismatch: only too few groups, or only too many, are refused.
groupsTooFew(re, fields) == NumSubexp(re) < Len(fields)
groupsTooMany(re, fields) == NumSubexp(re) > Len(fields)

\* Confirm that we have enough matching groups.
groupsMismatch(re, fields) == NumSubexp(re) # Len(fields)

CompileWithDelimiter(t, dl) ==
    LET acc == fieldLoop(t, dl, 0,
                         [err |-> NoCompileError, regex |-> <<FlagGroup>>,
                          fields |-> <<>>, kinds |-> <<>>])
    IN  IF acc.err # NoCompileError THEN [m |-> NilMatch, err |-> acc.err]
        ELSE IF ~SyntaxOK(acc.regex) THEN [m |-> NilMatch, err |-> ErrCompileRegex]
        ELSE IF groupsMismatch(acc.regex, acc.fields)
        THEN [m |-> NilMatch, err |-> ErrMismatch]
        ELSE [m |-> [regex |-> acc.regex, indices |-> acc.fields,
                     kinds |-> acc.kinds, vtype |-> t],
              err |-> NoCompileError]

Compile(t) == CompileWithDelimiter(t, DefaultDelimiter)

\* MustCompile panics where Compile returns an error.
MustCompile(t) ==
    LET r == Compile(t)
    IN  [m |-> r.m, err |-> r.err, panic |-> r.err # NoCompileError]

---------------------------------------------------------------------------
(* Unmarshal *)

NoCallError == [msg |-> "nil", field |-> -1, cause |-> NoError]
ErrNoMatches == [msg |-> "No matches found", field |-> -1, cause |-> NoError]
ErrParseField(j, cause) == [msg |-> "Failed to parse field", field |-> j, cause |-> cause]

\* What a caller passes as value: a pointer to its instance, the instance
\* itself, or a nil pointer of the struct's type.
Handles == {"ptr", "struct", "nilptr"}

\* Mutant of elemPanics: the value is dereferenced only if it is a pointer
\* (reflect.Indirect), so nothing panics.
elemNeverPanics(h) == FALSE

\* reflect.ValueOf(value).Elem() panics unless value is a pointer.
elemPanics(h) == h = "struct"

\* v.Field(j) panics on the zero Value, which Elem() of a nil pointer is.
fieldPanics(h) == h = "nilptr"

\* v.Field(j).CanSet(): the field of an addressable struct (one reached
\* through a pointer), if exported.
canSetField(h, t, j) == h = "ptr" /\ At0(t, j).PkgPath = ""

\* The submatch the loop hands to typeParser in iteration i.
submatchOf(sub, i) == At0(sub, i + 1)

\* Mutant of fieldOf: the loop index is taken for the field index.
fieldOfLoopIndex(mm, i) == i

\* The field the loop hands to typeParser in iteration i.
fieldOf(mm, i) == At0(mm.indices, i)

\* One iteration of the range loop over m.indices.
fieldStep(mm, sub, h, inst, i) ==
    LET j == fieldOf(mm, i)
        r == typeParser(At0(mm.kinds, i), submatchOf(sub, i),
                        canSetField(h, mm.vtype, j), inst[j])
    IN  [err |-> IF r.err # NoError THEN ErrParseField(j, r.err) ELSE NoCallError,
         value |-> [inst EXCEPT ![j] = r.v]]

RECURSIVE rangeLoop(_, _, _, _, _)
rangeLoop(mm, sub, h, inst, i) ==
    IF i >= Len(mm.indices) THEN [err |-> NoCallError, value |-> inst, panic |-> FALSE]
    ELSE IF fieldPanics(h) THEN [err |-> NoCallError, value |-> inst, panic |-> TRUE]
    ELSE LET r == fieldStep(mm, sub, h, inst, i)
         IN  IF r.err # NoCallError
             THEN [err |-> r.err, value |-> r.value, panic |-> FALSE]
             ELSE rangeLoop(mm, sub, h, r.value, i + 1)

\* Mutant of noMatchResult: the missing match is not reported.
noMatchUnreported(inst) == [err |-> NoCallError, value |-> inst, panic |-> FALSE]

\* What the call returns when the expression finds no match.
noMatchResult(inst) == [err |-> ErrNoMatches, value |-> inst, panic |-> FALSE]

\* m.Unmarshal(data, value): the error returned, the caller's instance
\* afterwards, whether the call panicked, and the submatch it worked on.
Unmarshal(mm, d, h, inst) ==
    LET sub == FindStringSubmatch(mm.regex, d)
        r == IF sub = NilSubmatch THEN noMatchResult(inst)
             ELSE IF elemPanics(h)
             THEN [err |-> NoCallError, value |-> inst, panic |-> TRUE]
             ELSE rangeLoop(mm, sub, h, inst, 0)
    IN  [err |-> r.err, value |-> r.value, panic |-> r.panic, s |-> sub, finds |-> 1]

---------------------------------------------------------------------------
(* The inputs of the model *)

Words == { <<"1">>, <<"-", "1">>, <<"3", "0", "0">> }

Inputs == UNION { [1..k -> Words] : k \in 0..MaxWords }

OneGroup == <<"(", "S", ")">>

Delimiters == { DefaultDelimiter, <<"?">>, <<"(", "*", ")">> }

FieldPool ==
    { [PkgPath |-> "", Tag |-> KeyTag(OneGroup), Type |-> "Int8"],
      [PkgPath |-> "", Tag |-> RawTag(OneGroup), Type |-> "Uint8"],
      [PkgPath |-> "", Tag |-> KeyTag(OneGroup), Type |-> "Bool"],
      [PkgPath |-> "", Tag |-> KeyTag(<<"(", "1", ")">>), Type |-> "String"],
      [PkgPath |-> "", Tag |-> KeyTag(<<"(", "S", ")", "(", "S", ")">>), Type |-> "Float64"],
      [PkgPath |-> "", Tag |-> RawTag(<<"S">>), Type |-> "Int64"],
      [PkgPath |-> "", Tag |-> KeyTag(<<"[">>), Type |-> "String"],
      [PkgPath |-> "", Tag |-> KeyTag(OneGroup), Type |-> "Struct"],
      [PkgPath |-> "", Tag |-> KeyTag(<<"-">>), Type |-> "Struct"],
      [PkgPath |-> "", Tag |-> RawTag(<<"-">>), Type |-> "Int8"],
      [PkgPath |-> "", Tag |-> RawTag(<<>>), Type |-> "String"],
      [PkgPath |-> "", Tag |-> KeyTag(<<>>), Type |-> "Bool"],
      [PkgPath |-> "sfmatch", Tag |-> KeyTag(OneGroup), Type |-> "String"] }

\* The struct types of at most MaxFields fields, named by position.
StructTypes ==
    UNION { { [i \in 1..k |-> [Name |-> FieldNames[i], PkgPath |-> f[i].PkgPath,
                               Tag |-> f[i].Tag, Type |-> f[i].Type]] :
              f \in [1..k -> FieldPool] } : k \in 0..MaxFields }

OldValue == [b |-> TRUE, n |-> 7, t |-> <<"o">>]

\* The instances a caller may hand in: all fields zero, or all fields set.
Instances(t) == { [j \in 0..(Len(t) - 1) |-> v] : v \in {ZeroValue, OldValue} }

---------------------------------------------------------------------------
(* The state machine: one compile call, then Unmarshal calls *)

Init ==
    /\ structure \in StructTypes
    /\ delim = <<>>
    /\ compiled = "new"
    /\ m = NilMatch
    /\ cerr = NoCompileError
    /\ pc = [c \in Calls |-> "idle"]
    /\ data = [c \in Calls |-> <<>>]
    /\ how = [c \in Calls |-> "ptr"]
    /\ value = [c \in Calls |-> <<>>]
    /\ before = [c \in Calls |-> <<>>]
    /\ s = [c \in Calls |-> NilSubmatch]
    /\ idx = [c \in Calls |-> 0]
    /\ err = [c \in Calls |-> NoCallError]
    /\ finds = [c \in Calls |-> 0]

CallCompile ==
    /\ compiled = "new"
    /\ LET r == Compile(structure)
       IN  /\ m' = r.m
           /\ cerr' = r.err
           /\ compiled' = IF r.err = NoCompileError THEN "ok" ELSE "err"
    /\ delim' = DefaultDelimiter
    /\ UNCHANGED <<structure, callVars>>

CallCompileWithDelimiter ==
    /\ compiled = "new"
    /\ \E dl \in Delimiters :
          LET r == CompileWithDelimiter(structure, dl)
          IN  /\ m' = r.m
              /\ cerr' = r.err
              /\ compiled' = IF r.err = NoCompileError THEN "ok" ELSE "err"
              /\ delim' = dl
    /\ UNCHANGED <<structure, callVars>>

CallMustCompile ==
    /\ compiled = "new"
    /\ LET r == MustCompile(structure)
       IN  /\ m' = r.m
           /\ cerr' = r.err
           /\ compiled' = IF r.panic THEN "panic" ELSE "ok"
    /\ delim' = DefaultDelimiter
    /\ UNCHANGED <<structure, callVars>>

\* Calls are numbered in the order in which they begin.
inOrder(c) == \A c2 \in Calls : c2 < c => pc[c2] # "idle"

\* A whole Unmarshal call on destination c.
CallUnmarshal(c) ==
    /\ compiled = "ok"
    /\ \A c2 \in Calls : pc[c2] = "idle"
    /\ inOrder(c)
    /\ \E d \in Inputs, h \in Handles, inst \in Instances(structure) :
          LET r == Unmarshal(m, d, h, inst)
          IN  /\ data' = [data EXCEPT ![c] = d]
              /\ how' = [how EXCEPT ![c] = h]
              /\ before' = [before EXCEPT ![c] = inst]
              /\ value' = [value EXCEPT ![c] = r.value]
              /\ s' = [s EXCEPT ![c] = r.s]
              /\ err' = [err EXCEPT ![c] = r.err]
              /\ finds' = [finds EXCEPT ![c] = r.finds]
              /\ idx' = idx
              /\ pc' = [pc EXCEPT ![c] = IF r.panic THEN "panic" ELSE "done"]
    /\ UNCHANGED compileVars

Next ==
    \/ CallCompile
    \/ CallCompileWithDelimiter
    \/ CallMustCompile
    \/ \E c \in Calls : CallUnmarshal(c)

Spec == Init /\ [][Next]_vars

---------------------------------------------------------------------------
(* Concurrent Unmarshal calls on one matcher, each with its own            *)
(* destination, interleaved statement by statement                         *)

\* The struct type whose fields are fs, named by position.
Named(fs) ==
    [i \in 1..Len(fs) |-> [Name |-> FieldNames[i], PkgPath |-> fs[i].PkgPath,
                           Tag |-> fs[i].Tag, Type |-> fs[i].Type]]

ConcTypes ==
    { Named(<<[PkgPath |-> "", Tag |-> KeyTag(OneGroup), Type |-> "Int8"],
              [PkgPath |-> "", Tag |-> KeyTag(OneGroup), Type |-> "Bool"]>>),
      Named(<<[PkgPath |-> "", Tag |-> KeyTag(<<"-">>), Type |-> "Struct"],
              [PkgPath |-> "", Tag |-> RawTag(OneGroup), Type |-> "Uint8"]>>) }

ConcInputs == { <<<<"1">>, <<"1">>>>, <<<<"1">>, <<"3", "0", "0">>>>, <<>> }

InitConc ==
    /\ structure \in ConcTypes
    /\ delim = <<>>
    /\ compiled = "new"
    /\ m = NilMatch
    /\ cerr = NoCompileError
    /\ pc = [c \in Calls |-> "idle"]
    /\ data = [c \in Calls |-> <<>>]
    /\ how = [c \in Calls |-> "ptr"]
    /\ value = [c \in Calls |-> <<>>]
    /\ before = [c \in Calls |-> <<>>]
    /\ s = [c \in Calls |-> NilSubmatch]
    /\ idx = [c \in Calls |-> 0]
    /\ err = [c \in Calls |-> NoCallError]
    /\ finds = [c \in Calls |-> 0]

\* Mutant of loopIndex: one loop variable shared by all calls.
sharedLoopIndex(c) == idx[1]

\* The loop variable i of call c: a local of the call.
loopIndex(c) == idx[c]

\* The call begins: s := m.regex.FindStringSubmatch(data), and the return
\* where s is nil.
Begin(c) ==
    /\ compiled = "ok"
    /\ pc[c] = "idle"
    /\ inOrder(c)
    /\ \E d \in ConcInputs, h \in Handles, inst \in Instances(structure) :
          LET sub == FindStringSubmatch(m.regex, d)
              r == noMatchResult(inst)
          IN  /\ data' = [data EXCEPT ![c] = d]
              /\ how' = [how EXCEPT ![c] = h]
              /\ before' = [before EXCEPT ![c] = inst]
              /\ value' = [value EXCEPT ![c] = inst]
              /\ s' = [s EXCEPT ![c] = sub]
              /\ finds' = [finds EXCEPT ![c] = finds[c] + 1]
              /\ err' = [err EXCEPT ![c] = IF sub = NilSubmatch THEN r.err ELSE NoCallError]
              /\ pc' = [pc EXCEPT ![c] = IF sub = NilSubmatch THEN "done" ELSE "found"]
    /\ UNCHANGED <<idx, compileVars>>

\* v := reflect.ValueOf(value).Elem()
Elem(c) ==
    /\ pc[c] = "found"
    /\ pc' = [pc EXCEPT ![c] = IF elemPanics(how[c]) THEN "panic" ELSE "loop"]
    /\ idx' = [idx EXCEPT ![c] = 0]
    /\ UNCHANGED <<data, how, value, before, s, err, finds, compileVars>>

\* One iteration of the loop of call c.
Field(c) ==
    /\ pc[c] = "loop"
    /\ loopIndex(c) < Len(m.indices)
    /\ IF fieldPanics(how[c])
       THEN /\ pc' = [pc EXCEPT ![c] = "panic"]
            /\ UNCHANGED <<value, err, idx>>
       ELSE LET r == fieldStep(m, s[c], how[c], value[c], loopIndex(c))
            IN  /\ value' = [value EXCEPT ![c] = r.value]
                /\ err' = [err EXCEPT ![c] = r.err]
                /\ idx' = [idx EXCEPT ![c] = loopIndex(c) + 1]
                /\ pc' = [pc EXCEPT ![c] = IF r.err # NoCallError THEN "done" ELSE "loop"]
    /\ UNCHANGED <<data, how, before, s, finds, compileVars>>

\* The loop is over: return nil.
Return(c) ==
    /\ pc[c] = "loop"
    /\ loopIndex(c) >= Len(m.indices)
    /\ pc' = [pc EXCEPT ![c] = "done"]
    /\ UNCHANGED <<data, how, value, before, s, idx, err, finds, compileVars>>

NextConc ==
    \/ CallCompile
    \/ \E c \in Calls : Begin(c)
    \/ \E c \in Calls : Elem(c)
    \/ \E c \in Calls : Field(c)
    \/ \E c \in Calls : Return(c)

SpecConc == InitConc /\ [][NextConc]_vars

---------------------------------------------------------------------------
(* What the properties speak of *)

\* The fragment a field is annotated with.
Fragment(ft) == ft.Tag.val

\* A recognized field: exported, its fragment neither a dash nor empty.
Recognized(ft) == ft.PkgPath = "" /\ Fragment(ft) # <<"-">> /\ Fragment(ft) # <<>>

\* The indices (from 0) of the recognized fields of t from field i on, in
\* declaration order.
RECURSIVE RecognizedFrom(_, _)
RecognizedFrom(t, i) ==
    IF i >= Len(t) THEN <<>>
    ELSE (IF Recognized(At0(t, i)) THEN <<i>> ELSE <<>>) \o RecognizedFrom(t, i + 1)

RecognizedFields(t) == RecognizedFrom(t, 0)

\* The composite pattern: the flags, then delimiter and fragment of every
\* recognized field.
Composite(t, dl) ==
    LET R == RecognizedFields(t)
    IN  <<FlagGroup>> \o Concat([k \in 1..Len(R) |-> dl \o Fragment(At0(t, R[k]))])

AllSupported(t) ==
    \A k \in 1..Len(RecognizedFields(t)) :
        At0(t, RecognizedFields(t)[k]).Type \in SupportedKinds

Finished(c) == pc[c] \in {"done", "panic"}

\* The iterations of the loop of a call on the matcher.
Iterations == 0..(Len(m.indices) - 1)

\* Whether n lies in the range of the declared width of an integer kind.
\* The numbers of the model are below 2^31.
InDeclaredRange(kind, n) ==
    IF Bits(kind) >= 32 THEN (kind \in UintKinds => n >= 0)
    ELSE IF kind \in IntKinds
         THEN 0 - 2 ^ (Bits(kind) - 1) <= n /\ n <= 2 ^ (Bits(kind) - 1) - 1
         ELSE 0 <= n /\ n <= 2 ^ Bits(kind) - 1

\* A text that is no value of the kind: malformed, or out of the range of
\* the kind's declared width.
ConversionFails(kind, text) ==
    CASE kind \in BoolKinds -> ParseBool(text).err # NoError
      [] kind \in IntKinds ->
            ParseInt(text).err # NoError \/ ~InDeclaredRange(kind, ParseInt(text).n)
      [] kind \in UintKinds ->
            ParseUint(text).err # NoError \/ ~InDeclaredRange(kind, ParseUint(text).n)
      [] kind \in FloatKinds -> ParseFloat(text).err # NoError
      [] OTHER -> FALSE

\* The value a field of the kind holds once the text is stored in it.
Converted(kind, text, v) ==
    CASE kind \in BoolKinds -> [v EXCEPT !.b = ParseBool(text).b]
      [] kind \in IntKinds -> [v EXCEPT !.n = ParseInt(text).n]
      [] kind \in UintKinds -> [v EXCEPT !.n = ParseUint(text).n]
      [] kind \in FloatKinds -> [v EXCEPT !.n = ParseFloat(text).n]
      [] OTHER -> [v EXCEPT !.t = text]

\* A call that went through the loop with a pointer to its instance.
Looped(c) == pc[c] = "done" /\ how[c] = "ptr" /\ s[c] # NilSubmatch

\* Iteration i of the loop of call c was executed.
Reached(c, i) ==
    \/ err[c] = NoCallError
    \/ \E i2 \in Iterations : i2 >= i /\ fieldOf(m, i2) = err[c].field

---------------------------------------------------------------------------
(* Properties of the compile call *)

\* C1: the compile call returns a matcher if and only if every recognized
\* field has a supported kind, the composite pattern is syntactically valid
\* and its number of capture groups is the number of recognized fields; in
\* every other case it returns an error and no matcher.
C1_CompileIff ==
    compiled # "new" =>
        LET re == Composite(structure, delim)
            good == /\ AllSupported(structure)
                    /\ SyntaxOK(re)
                    /\ NumSubexp(re) = Len(RecognizedFields(structure))
        IN  /\ (m # NilMatch) <=> good
            /\ (cerr = NoCompileError) <=> good
            /\ (compiled = "ok") <=> good

\* A compile with a delimiter of its own that returns a matcher of two
\* recognized fields out of three.
C1_Witness ==
    /\ compiled = "ok"
    /\ delim = <<"(", "*", ")">>
    /\ m # NilMatch
    /\ Len(structure) > Len(m.indices)
    /\ Len(m.indices) >= 1

\* C5 as stated: a field of an unsupported kind makes the compile call fail
\* with an error naming that field, whatever its fragment (a dash and the
\* empty fragment included) and whatever the other fields are.
C5_AnyFragment ==
    compiled # "new" =>
        \A i \in 1..Len(structure) :
            structure[i].Type \notin SupportedKinds =>
                /\ m = NilMatch
                /\ cerr = ErrUseField(structure[i].Name)

\* C5 as amended: the first recognized field of an unsupported kind makes the
\* compile call fail with an error naming it; a field of an unsupported kind
\* that is skipped raises no such error.
C5_FirstRecognized ==
    compiled # "new" =>
        /\ \A i \in 1..Len(structure) :
              ( /\ Recognized(structure[i])
                /\ structure[i].Type \notin SupportedKinds
                /\ \A i2 \in 1..(i - 1) :
                      Recognized(structure[i2]) => structure[i2].Type \in SupportedKinds )
              => (m = NilMatch /\ cerr = ErrUseField(structure[i].Name))
        /\ cerr.msg = "Failed to use field" =>
              \E i \in 1..Len(structure) :
                  /\ structure[i].Name = cerr.name
                  /\ Recognized(structure[i])
                  /\ structure[i].Type \notin SupportedKinds

\* The second field is the one named, after a field of an unsupported kind
\* that is skipped.
C5_Witness ==
    /\ compiled \in {"err", "panic"}
    /\ cerr = ErrUseField("B")
    /\ Len(structure) >= 2
    /\ structure[1].Type \notin SupportedKinds
    /\ ~Recognized(structure[1])

\* Kinds supported and composite valid: what is left to decide is the count.
CountDecides ==
    /\ compiled # "new"
    /\ AllSupported(structure)
    /\ SyntaxOK(Composite(structure, delim))

\* C6 as stated: a recognized field whose valid fragment holds a number of
\* capture groups other than one makes the compile call fail with the
\* mismatch error, whatever the other fragments and the delimiter hold.
C6_PerFragment ==
    CountDecides =>
        ( (\E i \in 1..Len(structure) :
              /\ Recognized(structure[i])
              /\ SyntaxOK(Fragment(structure[i]))
              /\ NumSubexp(Fragment(structure[i])) # 1)
          => cerr = ErrMismatch )

\* C6 as amended: the compile call fails with the mismatch error exactly
\* when the groups of the whole composite pattern are not as many as the
\* recognized fields; a fragment with another number of groups than one
\* does make it fail where every other fragment holds one group and the
\* delimiter none.
C6_TotalCount ==
    CountDecides =>
        /\ (cerr = ErrMismatch) <=>
              (NumSubexp(Composite(structure, delim)) # Len(RecognizedFields(structure)))
        /\ \A i \in 1..Len(structure) :
              ( /\ Recognized(structure[i])
                /\ NumSubexp(Fragment(structure[i])) # 1
                /\ NumSubexp(delim) = 0
                /\ \A i2 \in 1..Len(structure) :
                      (i2 # i /\ Recognized(structure[i2]))
                          => NumSubexp(Fragment(structure[i2])) = 1 )
              => cerr = ErrMismatch

\* A fragment of two groups next to a fragment of one group: a mismatch.
C6_Witness ==
    /\ CountDecides
    /\ cerr = ErrMismatch
    /\ Len(RecognizedFields(structure)) = 2
    /\ \E i \in 1..Len(structure) :
          Recognized(structure[i]) /\ NumSubexp(Fragment(structure[i])) = 2
    /\ \E i \in 1..Len(structure) :
          Recognized(structure[i]) /\ NumSubexp(Fragment(structure[i])) = 1

---------------------------------------------------------------------------
(* Properties of the Unmarshal call *)

FailureOrderingOfTheCode ==
    \A c \in Calls :
        Looped(c) =>
            \A i \in Iterations :
                ( /\ typeParser(At0(m.kinds, i), submatchOf(s[c], i), TRUE, ZeroValue).err # NoError
                  /\ \A i2 \in 0..(i - 1) :
                        typeParser(At0(m.kinds, i2), submatchOf(s[c], i2), TRUE, ZeroValue).err = NoError )
                =>
                ( /\ err[c] = ErrParseField(fieldOf(m, i), ErrSyntax)
                  /\ \A i2 \in 0..(i - 1) :
                        value[c][fieldOf(m, i2)] =
                            typeParser(At0(m.kinds, i2), submatchOf(s[c], i2), TRUE,
                                       before[c][fieldOf(m, i2)]).v
                  /\ \A j \in fieldOf(m, i)..(Len(structure) - 1) :
                        value[c][j] = before[c][j] )

C7_SkippedFields ==
    /\ compiled = "ok" =>
          /\ m.regex = Composite(structure, delim)
          /\ m.indices = RecognizedFields(structure)
    /\ \A c \in Calls :
          Finished(c) =>
              \A j \in 0..(Len(structure) - 1) :
                  ~Recognized(At0(structure, j)) => value[c][j] = before[c][j]

\* A call that wrote the second field of a struct whose first field is skipped.
C7_Witness ==
    /\ Looped(1)
    /\ err[1] = NoCallError
    /\ Len(structure) = 2
    /\ ~Recognized(structure[1])
    /\ Recognized(structure[2])
    /\ value[1][1] # before[1][1]
    /\ before[1][0] = OldValue

GroupToFieldOfTheCode ==
    \A c \in Calls :
        (Looped(c) /\ err[c] = NoCallError) =>
            /\ Len(s[c]) = Len(m.indices) + 1
            /\ m.indices = RecognizedFields(structure)
            /\ \A i \in Iterations :
                  value[c][fieldOf(m, i)] =
                      typeParser(At0(m.kinds, i), submatchOf(s[c], i), TRUE,
                                 before[c][fieldOf(m, i)]).v

\* C9: when the expression finds no match, the call returns the no-match
\* error, every field of the destination keeps its value, and the
\* expression is not executed a second time.
C9_NoMatch ==
    \A c \in Calls :
        (Finished(c) /\ s[c] = NilSubmatch) =>
            /\ pc[c] = "done"
            /\ err[c] = ErrNoMatches
            /\ value[c] = before[c]
            /\ finds[c] = 1

\* No match on an input of two words, with a pointer to a set instance.
C9_Witness ==
    /\ pc[1] = "done"
    /\ s[1] = NilSubmatch
    /\ how[1] = "ptr"
    /\ Len(data[1]) = 2
    /\ Len(m.indices) >= 1
    /\ before[1][0] = OldValue

---------------------------------------------------------------------------
(* Properties of concurrent calls *)

\* The result of call c, had it run alone.
Alone(c) == Unmarshal(m, data[c], how[c], before[c])

\* C10: no Unmarshal call changes the matcher, and every call of an
\* interleaving of calls that share the matcher and write their own
\* destinations returns what it returns alone and leaves its destination
\* as it leaves it alone.
C10_SharedMatcher ==
    /\ [][compiled = "ok" => (m' = m /\ compiled' = compiled)]_vars
    /\ [](\A c \in Calls :
            Finished(c) =>
                /\ err[c] = Alone(c).err
                /\ value[c] = Alone(c).value
                /\ (pc[c] = "panic") = Alone(c).panic
                /\ s[c] = Alone(c).s)

\* The second call has ended with a conversion error while the first,
\* which began before it, is in its loop and has written a field.
C10_Witness ==
    /\ pc[1] = "loop"
    /\ idx[1] = 1
    /\ value[1] # before[1]
    /\ pc[2] = "done"
    /\ err[2].msg = "Failed to parse field"
    /\ value[2] # before[2]

====
